---- MODULE Spec2Model ----
(***************************************************************************)
(* State machine of the App component of src/src/App.jsx: the hook state,  *)
(* the event handlers, and the translation requests in flight.             *)
(* A text is a sequence of characters, so that trim() is computed.         *)
(***************************************************************************)
EXTENDS Integers, Sequences, FiniteSets, TLC

\* ---------------------------------------------------------------- bounds
MaxLen == 1        \* longest text typed or returned by the provider
NumLangs == 2      \* how many entries of LANGUAGES the selects offer
MaxInFlight == 2   \* cap on requests the network holds at once

\* ------------------------------------------------------------- constants
LANGUAGES == <<"en", "es", "fr", "de", "it", "pt", "ru", "zh", "ja", "hi">>

Langs == {LANGUAGES[i] : i \in 1..NumLangs}

Whitespace == {" "}

Alphabet == {" ", "a"}

Texts == UNION {[1..n -> Alphabet] : n \in 0..MaxLen}

\* what the user can type into the key field, and what the build-time
\* variable can hold (absent is falsy, like '')
KeyInputs == {<<>>, <<" ">>, <<" ", "k", " ">>}

EmptyInputMsg == "Please enter some text to translate"

MissingKeyMsg == "Missing RapidAPI key. Enter your key below and click Save, or add VITE_RAPIDAPI_KEY as a build secret."

AuthFailedMsg == "Authorization failed (401/403). Ensure your RapidAPI key is valid and you are subscribed to text-translator2 (free plan)"

RateLimitMsg == "Rate limit exceeded (429). Please wait and try again."

TranslationFailedMsg == "Failed to translate. Please try again later."

NoError == ""

\* ------------------------------------------------------- pure functions
RECURSIVE TrimStart(_)
TrimStart(s) ==
    IF s # <<>> /\ Head(s) \in Whitespace THEN TrimStart(Tail(s)) ELSE s

RECURSIVE TrimEnd(_)
TrimEnd(s) ==
    IF s # <<>> /\ s[Len(s)] \in Whitespace
    THEN TrimEnd(SubSeq(s, 1, Len(s) - 1))
    ELSE s

Trim(s) == TrimEnd(TrimStart(s))

\* what localStorage can hold at startup: nothing (getItem gives null,
\* falsy like '') or a key this component saved, which is trimmed and not empty
StoredKeys == {<<>>} \cup {Trim(k) : k \in KeyInputs}

\* slip: the test without trim()
Blank_noTrim(s) == s = <<>>

\* !inputText.trim()
Blank(s) == Trim(s) = <<>>

\* a || b || ''
FirstTruthy(a, b) == IF a # <<>> THEN a ELSE IF b # <<>> THEN b ELSE <<>>

\* What axios.request settles with.  ok: the promise resolves (2xx);
\* otherwise it rejects, with err.response when the server answered and
\* without one on a transport error.  hasText: the body holds
\* data.translatedText.
NoResponse == [ok |-> FALSE, hasResponse |-> FALSE, status |-> 0,
               hasText |-> FALSE, text |-> <<>>]

Successes ==
    {[ok |-> TRUE, hasResponse |-> TRUE, status |-> 200,
      hasText |-> TRUE, text |-> t] : t \in Texts}
    \cup {[ok |-> TRUE, hasResponse |-> TRUE, status |-> 200,
           hasText |-> FALSE, text |-> <<>>]}

FailureStatuses == {401, 403, 429, 404, 500}

Failures ==
    {[ok |-> FALSE, hasResponse |-> TRUE, status |-> s,
      hasText |-> FALSE, text |-> <<>>] : s \in FailureStatuses}
    \cup {NoResponse}

Responses == Successes \cup Failures

\* response?.data?.data?.translatedText || ''
ExtractText(r) == IF r.hasText /\ r.text # <<>> THEN r.text ELSE <<>>

\* slip: 403 falls through to the generic message
ClassifyError_only401(r) ==
    IF r.hasResponse /\ r.status = 401 THEN AuthFailedMsg
    ELSE IF r.hasResponse /\ r.status = 429 THEN RateLimitMsg
    ELSE TranslationFailedMsg

\* the catch block's choice of message
ClassifyError(r) ==
    IF r.hasResponse /\ (r.status = 401 \/ r.status = 403) THEN AuthFailedMsg
    ELSE IF r.hasResponse /\ r.status = 429 THEN RateLimitMsg
    ELSE TranslationFailedMsg

\* ----------------------------------------------------------------- state
VARIABLES
    inputText, translatedText, sourceLang, targetLang,
    isLoading, error, apiKey, tempKey,
    storedKey,   \* localStorage['rapidapi_key']
    pending,     \* requests dispatched and not yet settled
    last         \* the handler that ran last, and the response it was given

vars == <<inputText, translatedText, sourceLang, targetLang, isLoading,
          error, apiKey, tempKey, storedKey, pending, last>>

Did(op) == [op |-> op, resp |-> NoResponse]

Init ==
    /\ inputText = <<>>
    /\ translatedText = <<>>
    /\ sourceLang = "en"
    /\ targetLang = "es"
    /\ isLoading = FALSE
    /\ error = NoError
    /\ \E env \in KeyInputs, stored \in StoredKeys :
          /\ storedKey = stored
          /\ apiKey = Trim(FirstTruthy(env, stored))
    /\ tempKey = <<>>
    /\ pending = <<>>
    /\ last = Did("init")

\* -------------------------------------------------------------- handlers
\* textarea onChange
SetInputText(t) ==
    /\ inputText' = t
    /\ last' = Did("setInputText")
    /\ UNCHANGED <<translatedText, sourceLang, targetLang, isLoading, error,
                   apiKey, tempKey, storedKey, pending>>

\* source select onChange
SetSourceLang(l) ==
    /\ sourceLang' = l
    /\ last' = Did("setSourceLang")
    /\ UNCHANGED <<inputText, translatedText, targetLang, isLoading, error,
                   apiKey, tempKey, storedKey, pending>>

\* target select onChange
SetTargetLang(l) ==
    /\ targetLang' = l
    /\ last' = Did("setTargetLang")
    /\ UNCHANGED <<inputText, translatedText, sourceLang, isLoading, error,
                   apiKey, tempKey, storedKey, pending>>

\* slip: the second pair of setters reads the value just written
swapLanguages_sequential ==
    /\ sourceLang' = targetLang
    /\ targetLang' = sourceLang
    /\ inputText' = translatedText
    /\ translatedText' = translatedText
    /\ last' = Did("swapLanguages")
    /\ UNCHANGED <<isLoading, error, apiKey, tempKey, storedKey, pending>>

swapLanguages ==
    /\ sourceLang' = targetLang
    /\ targetLang' = sourceLang
    /\ inputText' = translatedText
    /\ translatedText' = inputText
    /\ last' = Did("swapLanguages")
    /\ UNCHANGED <<isLoading, error, apiKey, tempKey, storedKey, pending>>

\* slip: setError('') left out
clearText_keepError ==
    /\ inputText' = <<>>
    /\ translatedText' = <<>>
    /\ last' = Did("clearText")
    /\ UNCHANGED <<sourceLang, targetLang, isLoading, error, apiKey, tempKey,
                   storedKey, pending>>

clearText ==
    /\ inputText' = <<>>
    /\ translatedText' = <<>>
    /\ error' = NoError
    /\ last' = Did("clearText")
    /\ UNCHANGED <<sourceLang, targetLang, isLoading, apiKey, tempKey,
                   storedKey, pending>>

\* the key banner is rendered only while !apiKey
BannerShown == apiKey = <<>>

\* key input onChange
SetTempKey(k) ==
    /\ BannerShown
    /\ tempKey' = k
    /\ last' = Did("setTempKey")
    /\ UNCHANGED <<inputText, translatedText, sourceLang, targetLang,
                   isLoading, error, apiKey, storedKey, pending>>

\* Save Key onClick
SaveKey ==
    /\ BannerShown
    /\ last' = Did("saveKey")
    /\ IF Trim(tempKey) = <<>>
       THEN UNCHANGED <<storedKey, apiKey, tempKey, error>>
       ELSE /\ storedKey' = Trim(tempKey)
            /\ apiKey' = Trim(tempKey)
            /\ tempKey' = <<>>
            /\ error' = NoError
    /\ UNCHANGED <<inputText, translatedText, sourceLang, targetLang,
                   isLoading, pending>>

\* the request built in options.data
Request == [source |-> sourceLang, target |-> targetLang, text |-> inputText]

\* slip: the credential test left out
translateText_noKeyCheck ==
    /\ last' = Did("translateText")
    /\ IF Blank(inputText)
       THEN /\ error' = EmptyInputMsg
            /\ UNCHANGED <<isLoading, pending>>
       ELSE /\ Len(pending) < MaxInFlight
            /\ isLoading' = TRUE
            /\ error' = NoError
            /\ pending' = Append(pending, Request)
    /\ UNCHANGED <<inputText, translatedText, sourceLang, targetLang,
                   apiKey, tempKey, storedKey>>

\* slip: setError('') before the dispatch left out
translateText_keepError ==
    /\ last' = Did("translateText")
    /\ IF Blank(inputText)
       THEN /\ error' = EmptyInputMsg
            /\ UNCHANGED <<isLoading, pending>>
       ELSE IF apiKey = <<>>
       THEN /\ error' = MissingKeyMsg
            /\ UNCHANGED <<isLoading, pending>>
       ELSE /\ Len(pending) < MaxInFlight
            /\ isLoading' = TRUE
            /\ pending' = Append(pending, Request)
            /\ UNCHANGED error
    /\ UNCHANGED <<inputText, translatedText, sourceLang, targetLang,
                   apiKey, tempKey, storedKey>>

translateText ==
    /\ last' = Did("translateText")
    /\ IF Blank(inputText)
       THEN /\ error' = EmptyInputMsg
            /\ UNCHANGED <<isLoading, pending>>
       ELSE IF apiKey = <<>>
       THEN /\ error' = MissingKeyMsg
            /\ UNCHANGED <<isLoading, pending>>
       ELSE /\ Len(pending) < MaxInFlight
            /\ isLoading' = TRUE
            /\ error' = NoError
            /\ pending' = Append(pending, Request)
    /\ UNCHANGED <<inputText, translatedText, sourceLang, targetLang,
                   apiKey, tempKey, storedKey>>

\* slip: the button disabled on blank text only
TranslateDisabled_noLoading == Blank(inputText)

\* the Translate button's disabled attribute
TranslateDisabled == isLoading \/ Blank(inputText)

\* Translate onClick
ClickTranslate ==
    /\ ~TranslateDisabled
    /\ translateText

RemoveAt(s, i) == SubSeq(s, 1, i - 1) \o SubSeq(s, i + 1, Len(s))

\* slip: setIsLoading(false) at the end of try instead of in finally
Settle_noFinally(i, r) ==
    /\ i \in 1..Len(pending)
    /\ pending' = RemoveAt(pending, i)
    /\ IF r.ok
       THEN /\ translatedText' = ExtractText(r)
            /\ isLoading' = FALSE
            /\ UNCHANGED error
       ELSE /\ error' = ClassifyError(r)
            /\ UNCHANGED <<translatedText, isLoading>>
    /\ last' = [op |-> "settle", resp |-> r]
    /\ UNCHANGED <<inputText, sourceLang, targetLang, apiKey, tempKey,
                   storedKey>>

\* change: a response is dropped when the input was edited since dispatch
Settle_discardStale(i, r) ==
    /\ i \in 1..Len(pending)
    /\ pending' = RemoveAt(pending, i)
    /\ IF r.ok
       THEN /\ translatedText' =
                  IF pending[i].text = inputText THEN ExtractText(r)
                  ELSE translatedText
            /\ UNCHANGED error
       ELSE /\ error' = ClassifyError(r)
            /\ UNCHANGED translatedText
    /\ isLoading' = FALSE
    /\ last' = [op |-> "settle", resp |-> r]
    /\ UNCHANGED <<inputText, sourceLang, targetLang, apiKey, tempKey,
                   storedKey>>

\* slip: the catch block also resets the output
Settle_clearOnFail(i, r) ==
    /\ i \in 1..Len(pending)
    /\ pending' = RemoveAt(pending, i)
    /\ IF r.ok
       THEN /\ translatedText' = ExtractText(r)
            /\ UNCHANGED error
       ELSE /\ error' = ClassifyError(r)
            /\ translatedText' = <<>>
    /\ isLoading' = FALSE
    /\ last' = [op |-> "settle", resp |-> r]
    /\ UNCHANGED <<inputText, sourceLang, targetLang, apiKey, tempKey,
                   storedKey>>

\* the await resumes: try / catch / finally of translateText
Settle(i, r) ==
    /\ i \in 1..Len(pending)
    /\ pending' = RemoveAt(pending, i)
    /\ IF r.ok
       THEN /\ translatedText' = ExtractText(r)
            /\ UNCHANGED error
       ELSE /\ error' = ClassifyError(r)
            /\ UNCHANGED translatedText
    /\ isLoading' = FALSE
    /\ last' = [op |-> "settle", resp |-> r]
    /\ UNCHANGED <<inputText, sourceLang, targetLang, apiKey, tempKey,
                   storedKey>>

\* -------------------------------------------------------- specifications
EditInput == \E t \in Texts : SetInputText(t)

ChooseSource == \E l \in Langs : SetSourceLang(l)

ChooseTarget == \E l \in Langs : SetTargetLang(l)

EditKey == \E k \in KeyInputs : SetTempKey(k)

Deliver == \E i \in 1..MaxInFlight, r \in Responses : Settle(i, r)

\* the component as the user drives it
Next ==
    \/ EditInput
    \/ ChooseSource
    \/ ChooseTarget
    \/ swapLanguages
    \/ clearText
    \/ EditKey
    \/ SaveKey
    \/ ClickTranslate
    \/ Deliver

Spec == Init /\ [][Next]_vars

\* every request the network holds is eventually settled
LiveSpec == Spec /\ WF_vars(Deliver)

\* translateText run on any input text while no request is outstanding:
\* the button never runs it on blank text, so its own validation of the
\* text is exercised by calling it past that half of the disabled attribute
CallTranslate ==
    /\ ~isLoading
    /\ translateText

NextCall ==
    \/ EditInput
    \/ ChooseSource
    \/ ChooseTarget
    \/ swapLanguages
    \/ clearText
    \/ EditKey
    \/ SaveKey
    \/ CallTranslate
    \/ Deliver

CallSpec == Init /\ [][NextCall]_vars

\* ---------------------------------------------------------------- claims
\* a text that is empty or holds whitespace only, stated without trim()
OnlyWhitespace(s) == \A j \in 1..Len(s) : s[j] \in Whitespace

\* this step is an invocation of translateText
Invoked == last'.op = "translateText"

\* this step settles a request with the response last'.resp
Settled == last'.op = "settle" /\ Len(pending') < Len(pending)

\* the nested translatedText field of a response, '' when it is absent
FieldOf(r) == IF r.hasText THEN r.text ELSE <<>>

\* C1: under any interleaving of user actions and response deliveries at
\* most one translation request is in flight, and a request in flight
\* keeps the busy flag raised (which is what disables the submit control).
C1_AtMostOneInFlight ==
    /\ Len(pending) <= 1
    /\ pending # <<>> => isLoading

\* a request is outstanding and the user has gone on editing
C1_Witness ==
    /\ Len(pending) = 1
    /\ isLoading
    /\ last.op = "setInputText"
    /\ ~Blank(inputText)

\* C2: every completion of a request (success, HTTP error, transport error)
\* leaves the busy flag false; and, requests always being settled in the
\* end, a raised busy flag always leads to a lowered one.
C2_BusyCleared ==
    /\ [][Settled => ~isLoading']_vars
    /\ (isLoading ~> ~isLoading)

\* a request has just failed without any response and the flag is down
C2_Witness ==
    /\ last.op = "settle"
    /\ last.resp = NoResponse
    /\ ~isLoading
    /\ pending = <<>>

\* C3: an invocation of translateText on empty or whitespace-only input
\* issues no request, sets the empty-input message, leaves the busy flag
\* false, and leaves input, output, languages and credential unchanged.
C3_EmptyInput ==
    [][Invoked /\ OnlyWhitespace(inputText) =>
          /\ error' = EmptyInputMsg
          /\ pending' = pending
          /\ ~isLoading /\ ~isLoading'
          /\ UNCHANGED <<inputText, translatedText, sourceLang, targetLang,
                         apiKey>>]_vars

\* translateText has just run on whitespace-only text, with a credential
C3_Witness ==
    /\ last.op = "translateText"
    /\ inputText = <<" ">>
    /\ apiKey # <<>>
    /\ error = EmptyInputMsg
    /\ pending = <<>>
    /\ ~isLoading

C5_Classification ==
    [][Settled /\ ~last'.resp.ok =>
          error' = CASE last'.resp.hasResponse /\ last'.resp.status \in {401, 403}
                          -> AuthFailedMsg
                     [] last'.resp.hasResponse /\ last'.resp.status = 429
                          -> RateLimitMsg
                     [] OTHER -> TranslationFailedMsg]_vars

\* a 403 has just been classified as an authorization failure
C5_Witness ==
    /\ last.op = "settle"
    /\ last.resp.hasResponse
    /\ last.resp.status = 403
    /\ error = AuthFailedMsg

\* C6: a completed request ends either with the output set to the
\* response's translatedText field ('' when absent) and no error, or with
\* an error and the output not written; never both, never neither.
C6_ExactlyOneOutcome ==
    [][Settled =>
          IF last'.resp.ok
          THEN translatedText' = FieldOf(last'.resp) /\ error' = NoError
          ELSE error' # NoError /\ translatedText' = translatedText]_vars

\* a success has just replaced the output and no error is shown
C6_Witness ==
    /\ last.op = "settle"
    /\ last.resp.ok
    /\ last.resp.text = <<"a">>
    /\ translatedText = <<"a">>
    /\ error = NoError

\* C7: swap exchanges the two languages and the two texts, issues no
\* request, and leaves error, busy flag and credential unchanged.
C7_Swap ==
    [][last'.op = "swapLanguages" =>
          /\ sourceLang' = targetLang
          /\ targetLang' = sourceLang
          /\ inputText' = translatedText
          /\ translatedText' = inputText
          /\ UNCHANGED <<error, isLoading, apiKey, pending>>]_vars

\* a swap has just exchanged differing languages and differing texts
\* while a request was outstanding
C7_Witness ==
    /\ last.op = "swapLanguages"
    /\ sourceLang # targetLang
    /\ inputText # translatedText
    /\ Len(pending) = 1

\* C8: nothing cancels or alters a request in flight: the requests change
\* only by a dispatch, which captures the languages and text of that
\* moment, or by a completion; and a successful completion overwrites the
\* output whatever the user has done since the dispatch.
C8_NoCancellation ==
    [][/\ pending' # pending =>
             \/ Invoked /\ pending' = Append(pending,
                    [source |-> sourceLang, target |-> targetLang,
                     text |-> inputText])
             \/ last'.op = "settle" /\ Len(pending) = Len(pending') + 1
       /\ Settled /\ last'.resp.ok => translatedText' = FieldOf(last'.resp)
      ]_vars

\* a success has just written the output although the input, which was
\* not blank at dispatch, has been emptied since
C8_Witness ==
    /\ last.op = "settle"
    /\ last.resp.ok
    /\ last.resp.text = <<"a">>
    /\ translatedText = <<"a">>
    /\ inputText = <<>>

\* C9: clear empties input, output and error, issues no request, and
\* leaves the languages, the busy flag, the credential and any request in
\* flight unchanged.
C9_Clear ==
    [][last'.op = "clearText" =>
          /\ inputText' = <<>>
          /\ translatedText' = <<>>
          /\ error' = NoError
          /\ UNCHANGED <<sourceLang, targetLang, isLoading, apiKey,
                         pending>>]_vars

\* a clear has just run while a request was outstanding and the languages
\* were not the initial ones
C9_Witness ==
    /\ last.op = "clearText"
    /\ inputText = <<>> /\ translatedText = <<>> /\ error = NoError
    /\ Len(pending) = 1
    /\ isLoading
    /\ sourceLang = "es" /\ targetLang = "en"

\* C10: a failed completion changes only the error and the busy flag; the
\* output stays exactly as it was.
C10_FailureKeepsOutput ==
    [][Settled /\ ~last'.resp.ok =>
          /\ error' # NoError
          /\ UNCHANGED <<translatedText, inputText, sourceLang, targetLang,
                         apiKey, tempKey, storedKey>>]_vars

\* a failure has just been reported while an earlier translation is shown
C10_Witness ==
    /\ last.op = "settle"
    /\ ~last.resp.ok
    /\ last.resp.status = 429
    /\ translatedText = <<"a">>
    /\ error = RateLimitMsg

====
